---- MODULE Spec2Model ----
(***************************************************************************)
(* Campaign dispatch engine of app.py: the email_campaigns table, the      *)
(* CampaignWorker singleton with its process_emails background threads,    *)
(* the Custom Send button handler and the administrative store operations. *)
(***************************************************************************)
EXTENDS Integers, Sequences, FiniteSets, TLC

\* ---------------------------------------------------------------- bounds
NumJobs == 1          \* rows imported into email_campaigns before the run
NumTest == 1          \* entries of the test_contacts list
MaxPriority == 1      \* serial_number of an imported row ranges over 0..MaxPriority
MaxThreads == 2       \* process_emails threads start() may launch in one run
MinDelayCfg == 0      \* config.MIN_DELAY, in seconds, scaled down
MaxDelayCfg == 1      \* config.MAX_DELAY, in seconds, scaled down
HappyJobs == 3        \* queue length of the end-to-end scenario
MaxTokens == 3          \* longest reply of the Gemini API, in tokens
MaxHanded == 2          \* the sends of one row are counted up to MaxHanded
UpsertRows == 2         \* rows, and distinct emails, of the tables an upsert is tried on
PaceMin == 1            \* MIN_DELAY of the paced runs
PaceMax == 2            \* MAX_DELAY of the paced runs
HappyPriority == 2    \* its serial_numbers range over 0..HappyPriority

NULL == "NULL"        \* SQL NULL / None of a text value
None == 0             \* None of an id or an email (ids and emails are positive)
NoStop == {None}      \* sinceStop while no stop() is outstanding
Threads == 1..MaxThreads
Texts == {"boom", "down"}   \* exception texts str(e); a run draws from config.texts

VARIABLES
    jobs,           \* email_campaigns: sequence of rows, id = index
    is_running,     \* CampaignWorker.is_running
    is_paused,      \* CampaignWorker.is_paused
    current_email,  \* CampaignWorker.current_email
    pc,             \* position of each process_emails thread
    email_record,   \* per thread: id of emails[0] of the current iteration
    exc,            \* per thread: str(e) caught at line 514
    delay,          \* per thread: iterations left of the paced wait
    mpc,            \* position of the Custom Send handler
    memail,         \* id of the row whose Send button was clicked
    mexc,           \* str(e) caught at line 921
    config,         \* MIN_DELAY / MAX_DELAY; texts: the exception texts of the run;
                    \* history, pace, gen: whether sinceStop, pace, call are kept;
                    \* model: GeminiClient.model is set; api: the outcomes of
                    \* model.generate_content in the run; resume: the outcomes of
                    \* get_resume_attachment in the run; sends, once: whether call
                    \* keeps the send_email results, the sends of each row;
                    \* clock: whether the rows carry their timestamps
    sinceStop,      \* history: ids whose status a loop has written since stop()
                    \* was called on a running worker, NoStop once start() is called
    pace,           \* history, per thread: one-second sleeps of the paced wait since
                    \* the thread last recorded an outcome, -1 when it owes no wait
    call,           \* history of the calls a run keeps track of (generate_email,
                    \* send_email, a store operation made on its own), None in
                    \* the runs that keep none
    now             \* NOW() of the store, a logical clock that each store
                    \* operation made on its own advances

vars == <<jobs, is_running, is_paused, current_email, pc, email_record, exc,
          delay, mpc, memail, mexc, config, sinceStop, pace, call, now>>

worker == <<is_running, is_paused, current_email>>
locals == <<email_record, exc, delay>>
manual == <<mpc, memail, mexc>>
history == <<sinceStop, pace, call, now>>

\* ------------------------------------------------------------- the store
\* NOW() as the rows record it: 0 throughout in a run that keeps no timestamps
Now == IF config.clock THEN now ELSE 0

\* a row as an INSERT at time 0 leaves it: status 'pending', sent FALSE,
\* created_at and updated_at the time of the INSERT, the rest NULL
Row(sn, em, nm, ti, co) ==
    [serial_number |-> sn, email |-> em, name |-> nm, title |-> ti, company |-> co,
     status |-> "pending", sent |-> FALSE, error_message |-> NULL, sent_at |-> 0,
     created_at |-> 0, updated_at |-> 0]

\* the same INSERT now
Inserted(c) ==
    [Row(c.serial_number, c.email, c.name, c.title, c.company)
        EXCEPT !.created_at = Now, !.updated_at = Now]

Ids(js) == DOMAIN js

\* WHERE status = 'pending' AND sent = FALSE
PendingRows(js) == {i \in Ids(js) : js[i].status = "pending" /\ js[i].sent = FALSE}

\* the query with ORDER BY serial_number DESC
get_pending_emails_desc(js) ==
    {i \in PendingRows(js) :
        \A k \in PendingRows(js) : js[i].serial_number >= js[k].serial_number}

\* the query with a further condition serial_number > 0
get_pending_emails_positive(js) ==
    {i \in PendingRows(js) :
        /\ js[i].serial_number > 0
        /\ \A k \in PendingRows(js) :
              js[k].serial_number > 0 => js[i].serial_number <= js[k].serial_number}

\* ORDER BY serial_number ASC LIMIT 1: the rows the query may return as emails[0];
\* SQL leaves the order of rows with equal serial_number open.
get_pending_emails(js) ==
    {i \in PendingRows(js) :
        \A k \in PendingRows(js) : js[i].serial_number <= js[k].serial_number}

\* ORDER BY serial_number ASC, id ASC LIMIT 1 OFFSET 0
get_pending_emails_paginated(js) ==
    {i \in PendingRows(js) :
        \A k \in PendingRows(js) :
            \/ js[i].serial_number < js[k].serial_number
            \/ js[i].serial_number = js[k].serial_number /\ i <= k}

\* WHERE status = %s
get_emails_by_status(js, st) == {i \in Ids(js) : js[i].status = st}

get_stats(js) ==
    [total   |-> Cardinality(Ids(js)),
     sent    |-> Cardinality({i \in Ids(js) : js[i].sent}),
     pending |-> Cardinality(PendingRows(js)),
     failed  |-> Cardinality({i \in Ids(js) : js[i].status = "failed"})]

Max(a, b) == IF a >= b THEN a ELSE b

\* line 791 without max(..., 1)
progress_unguarded(stats) == [num |-> stats.sent, den |-> stats.total]

\* line 791: stats['sent'] / max(stats['total'], 1), as numerator and denominator
progress(stats) == [num |-> stats.sent, den |-> Max(stats.total, 1)]

\* line 798: stats['sent'] / max(stats['sent'] + stats['failed'], 1) * 100
success_rate(stats) ==
    [num |-> stats.sent * 100, den |-> Max(stats.sent + stats.failed, 1)]

update_email_status(js, id, st, msg) ==
    IF st = "sent"
    THEN [js EXCEPT ![id].status = st, ![id].sent = TRUE, ![id].sent_at = 1,
                    ![id].updated_at = Now]
    ELSE [js EXCEPT ![id].status = st, ![id].error_message = msg,
                    ![id].updated_at = Now]

reset_email_status(js, id) ==
    [js EXCEPT ![id].status = "pending", ![id].sent = FALSE,
               ![id].error_message = NULL, ![id].updated_at = Now]

\* the UPDATE of lines 224-226 without its WHERE clause
reset_all_failed_nowhere(js) ==
    [i \in Ids(js) |->
        [js[i] EXCEPT !.status = "pending", !.sent = FALSE,
                      !.error_message = NULL, !.updated_at = Now]]

reset_all_failed(js) ==
    [i \in Ids(js) |->
        IF js[i].status = "failed"
        THEN [js[i] EXCEPT !.status = "pending", !.sent = FALSE,
                           !.error_message = NULL, !.updated_at = Now]
        ELSE js[i]]

\* the statement without its ON CONFLICT clause
InsertOnly(js, c) == Append(js, Inserted(c))

\* the statement with serial_number = EXCLUDED.serial_number in its SET list
Upsert_renumbers(js, c) ==
    IF \E i \in Ids(js) : js[i].email = c.email
    THEN [i \in Ids(js) |->
            IF js[i].email = c.email
            THEN [js[i] EXCEPT !.status = "pending", !.sent = FALSE,
                               !.serial_number = c.serial_number,
                               !.name = c.name, !.title = c.title,
                               !.company = c.company,
                               !.error_message = NULL, !.sent_at = 0]
            ELSE js[i]]
    ELSE Append(js, Inserted(c))

\* INSERT ... ON CONFLICT (email) DO UPDATE, one contact
Upsert(js, c) ==
    IF \E i \in Ids(js) : js[i].email = c.email
    THEN [i \in Ids(js) |->
            IF js[i].email = c.email
            THEN [js[i] EXCEPT !.status = "pending", !.sent = FALSE,
                               !.name = c.name, !.title = c.title,
                               !.company = c.company,
                               !.error_message = NULL, !.sent_at = 0]
            ELSE js[i]]
    ELSE Append(js, Inserted(c))

TestEmails == (NumJobs + 1)..(NumJobs + NumTest)

\* test_contacts: serial_number 0, one email each
TestContacts ==
    {[serial_number |-> 0, name |-> "Priya Sharma", email |-> em,
      title |-> "HR Manager", company |-> "Google India"] : em \in TestEmails}

RECURSIVE UpsertAll(_, _)
UpsertAll(js, cs) ==
    IF cs = {} THEN js
    ELSE LET c == CHOOSE e \in cs : \A o \in cs : e.email <= o.email
         IN UpsertAll(Upsert(js, c), cs \ {c})

add_test_contacts(js) == UpsertAll(js, TestContacts)

\* a row imported before the run
Imported(sn, i) == Row(sn, i, "hr", NULL, NULL)

\* ------------------------------------------------------------- Init
\* ------------------------------------------------ GeminiClient
\* response.text as a sequence of tokens; "w" is any text without the two markers
Tokens == {"SUBJECT:", "BODY:", "w"}
Replies == UNION {[1..n -> Tokens] : n \in 0..MaxTokens}
ApiError == <<"raise">>     \* generate_content or response.text raises
ApiOutcomes == Replies \cup {ApiError}
ApiSome == {ApiError, <<"SUBJECT:", "w", "BODY:", "w">>}
Raised == [raised |-> TRUE] \* generate_email raises instead of returning
Returned(subject, body) == [raised |-> FALSE, subject |-> subject, body |-> body]

Has(text, tok) == \E k \in 1..Len(text) : text[k] = tok

\* the part of text before its first tok, and the part after it
Before(text, tok) ==
    IF Has(text, tok)
    THEN SubSeq(text, 1, (CHOOSE k \in 1..Len(text) :
                 text[k] = tok /\ \A j \in 1..(k - 1) : text[j] # tok) - 1)
    ELSE text
After(text, tok) == SubSeq(text, Len(Before(text, tok)) + 2, Len(text))

\* text.split(tok)[n], n = 0 or 1, for a text that holds tok
Split(text, tok, n) ==
    IF n = 0 THEN Before(text, tok) ELSE Before(After(text, tok), tok)

\* text.replace(tok, "")
Replace(text, tok) == SelectSeq(text, LAMBDA x : x # tok)

fallback_body(company) == <<"fallback_body", company>>

\* lines 387-405 with `raise` in the except branch
generate_email_reraises(model, reply, company) ==
    IF ~model
    THEN Returned(<<"Application for Software Developer Role - ", company>>,
                  fallback_body(company))
    ELSE IF reply = ApiError
    THEN Raised
    ELSE IF Has(reply, "SUBJECT:") /\ Has(reply, "BODY:")
    THEN Returned(Replace(Split(reply, "BODY:", 0), "SUBJECT:"),
                  Split(reply, "BODY:", 1))
    ELSE Returned(<<"Software Developer Eager to Contribute at ", company>>,
                  reply)

\* GeminiClient.generate_email; reply is what model.generate_content gives
generate_email(model, reply, company) ==
    IF ~model
    THEN Returned(<<"Application for Software Developer Role - ", company>>,
                  fallback_body(company))
    ELSE IF reply = ApiError
    THEN Returned(<<"Software Developer Eager to Contribute at ", company>>,
                  fallback_body(company))
    ELSE IF Has(reply, "SUBJECT:") /\ Has(reply, "BODY:")
    THEN Returned(Replace(Split(reply, "BODY:", 0), "SUBJECT:"),
                  Split(reply, "BODY:", 1))
    ELSE Returned(<<"Software Developer Eager to Contribute at ", company>>,
                  reply)

\* email_record.get("company") or "your company"
Company(r) == IF r.company = NULL THEN "your company" ELSE r.company

\* history of the last generate_email call; NoCall before the first
NoCall == [reply |-> <<"none">>, result |-> [raised |-> FALSE]]
Generated(reply, g) ==
    call' = IF config.gen THEN [reply |-> reply, result |-> g] ELSE call

TypeOK ==
    /\ is_running \in BOOLEAN /\ is_paused \in BOOLEAN
    /\ pc \in [Threads -> {"idle", "check", "hold", "fetch", "selfstop", "send",
                           "rec_sent", "rec_failed", "clear", "wait", "backoff",
                           "final", "exited"}]
    /\ mpc \in {"m_idle", "m_send", "m_rec_sent", "m_rec_failed"}

InitThreads ==
    /\ is_running = FALSE
    /\ is_paused = FALSE
    /\ current_email = None
    /\ pc = [t \in Threads |-> "idle"]
    /\ email_record = [t \in Threads |-> None]
    /\ exc = [t \in Threads |-> NULL]
    /\ delay = [t \in Threads |-> 0]
    /\ mpc = "m_idle"
    /\ memail = None
    /\ mexc = NULL
    /\ sinceStop = NoStop
    /\ pace = [t \in Threads |-> -1]
    /\ now = 1

InitWorker == InitThreads /\ call = None

Init ==
    /\ \E sns \in [1..NumJobs -> 0..MaxPriority] :
          jobs = [i \in 1..NumJobs |-> Imported(sns[i], i)]
    /\ config = [MIN_DELAY |-> MinDelayCfg, MAX_DELAY |-> MaxDelayCfg,
                 texts |-> {"boom"}, history |-> FALSE, pace |-> FALSE,
                 model |-> TRUE, api |-> ApiSome, gen |-> FALSE,
                 resume |-> {"stored"}, sends |-> FALSE, once |-> FALSE,
                 clock |-> FALSE]
    /\ InitWorker

\* ------------------------------------------------ CampaignWorker.process_emails
InFlight == {"send", "rec_sent", "rec_failed"}

\* history of the status writes a loop makes after stop()
LoopWrote(id, js) ==
    sinceStop' = IF sinceStop # NoStop /\ js[id].status # jobs[id].status
                 THEN sinceStop \cup {id} ELSE sinceStop

\* ------------------------------------------------ EmailSender
\* get_resume_attachment: the active row of resume_storage decodes, the local
\* file is read, there is neither, the SELECT raises, b64decode raises
Resumes == {"stored", "file", "none", "read_error", "undecodable"}
\* the SMTP block: send_message returns, or anything in the block raises
Smtp == {"accepted", "refused"}

\* lines 445-461: handed, the SMTP block was entered; attached, with the resume;
\* raised, send_email raises instead of returning True
send_email(att, smtp) ==
    IF att \in {"read_error", "undecodable"}
    THEN [handed |-> FALSE, attached |-> FALSE, raised |-> TRUE]
    ELSE [handed |-> TRUE, attached |-> att \in {"stored", "file"},
          raised |-> smtp # "accepted"]

\* history of the send_email calls: the last call of each holder (0 the Custom
\* Send handler, t the loop thread t), or the sends of each row since its last
\* reset or upsert
NoSend == [resume |-> "none", smtp |-> "none",
           result |-> [handed |-> FALSE, attached |-> FALSE, raised |-> FALSE]]
Holders == 0..MaxThreads
AllIds == 1..(NumJobs + NumTest)

Sent(h, id, att, smtp, r) ==
    call' = IF config.sends
            THEN [call EXCEPT ![h] = [resume |-> att, smtp |-> smtp, result |-> r]]
            ELSE IF config.once /\ r.handed
            THEN [call EXCEPT ![id] = IF @ < MaxHanded THEN @ + 1 ELSE @]
            ELSE call

\* the rows ids start a new pending episode
Renewed(ids) ==
    call' = IF config.once
            THEN [i \in AllIds |-> IF i \in ids THEN 0 ELSE call[i]]
            ELSE call

\* history of the sleeps of the paced wait
Paced(t, n) == pace' = IF config.pace THEN [pace EXCEPT ![t] = n] ELSE pace

\* lines 484-487: while self.is_running / if self.is_paused
Check(t) ==
    /\ pc[t] = "check"
    /\ pc' = [pc EXCEPT ![t] = IF ~is_running THEN "final"
                               ELSE IF is_paused THEN "hold" ELSE "fetch"]
    /\ UNCHANGED <<jobs, worker, locals, manual, config, history>>

\* line 486-487: time.sleep(1); continue
Hold(t) ==
    /\ pc[t] = "hold"
    /\ pc' = [pc EXCEPT ![t] = "check"]
    /\ UNCHANGED <<jobs, worker, locals, manual, config, history>>

\* lines 490-504: the SELECT returns; emails[0] is published and its text generated
FetchOk(t) ==
    /\ pc[t] = "fetch"
    /\ IF get_pending_emails(jobs) = {}
       THEN /\ pc' = [pc EXCEPT ![t] = "selfstop"]
            /\ UNCHANGED <<email_record, current_email>>
            /\ UNCHANGED call
       ELSE \E i \in get_pending_emails(jobs), reply \in config.api :
               LET g == generate_email(config.model, reply, Company(jobs[i]))
               IN /\ email_record' = [email_record EXCEPT ![t] = i]
                  /\ current_email' = jobs[i].email
                  /\ pc' = [pc EXCEPT ![t] = IF g.raised THEN "backoff" ELSE "send"]
                  /\ Generated(reply, g)
    /\ Paced(t, -1)
    /\ UNCHANGED <<jobs, is_running, is_paused, exc, delay, manual, config, sinceStop, now>>

\* line 490 raises; lines 527-529
FetchRaise(t) ==
    /\ pc[t] = "fetch"
    /\ pc' = [pc EXCEPT ![t] = "backoff"]
    /\ UNCHANGED <<jobs, worker, locals, manual, config, history>>

\* lines 492-494
SelfStop(t) ==
    /\ pc[t] = "selfstop"
    /\ is_running' = FALSE
    /\ current_email' = None
    /\ pc' = [pc EXCEPT ![t] = "final"]
    /\ UNCHANGED <<jobs, is_paused, locals, manual, config, history>>

\* lines 508-512: send_email returns True
SendOk(t) ==
    /\ pc[t] = "send"
    /\ \E att \in config.resume :
          LET r == send_email(att, "accepted")
          IN ~r.raised /\ Sent(t, email_record[t], att, "accepted", r)
    /\ pc' = [pc EXCEPT ![t] = "rec_sent"]
    /\ UNCHANGED <<jobs, worker, locals, manual, config, sinceStop, pace, now>>

\* lines 508-514: send_email raises (SMTP error, or the resume query)
SendFail(t) ==
    /\ pc[t] = "send"
    /\ \E att \in config.resume, smtp \in Smtp :
          LET r == send_email(att, smtp)
          IN r.raised /\ Sent(t, email_record[t], att, smtp, r)
    /\ \E e \in config.texts : exc' = [exc EXCEPT ![t] = e]
    /\ pc' = [pc EXCEPT ![t] = "rec_failed"]
    /\ UNCHANGED <<jobs, worker, email_record, delay, manual, config,
                   sinceStop, pace, now>>

\* line 513
RecordSentOk(t) ==
    /\ pc[t] = "rec_sent"
    /\ jobs' = update_email_status(jobs, email_record[t], "sent", NULL)
    /\ LoopWrote(email_record[t], jobs')
    /\ email_record' = [email_record EXCEPT ![t] = None]
    /\ pc' = [pc EXCEPT ![t] = "clear"]
    /\ Paced(t, 0)
    /\ UNCHANGED <<worker, exc, delay, manual, config, call, now>>

\* line 513 raises; line 514
RecordSentRaise(t) ==
    /\ pc[t] = "rec_sent"
    /\ \E r \in config.texts : exc' = [exc EXCEPT ![t] = r]
    /\ pc' = [pc EXCEPT ![t] = "rec_failed"]
    /\ UNCHANGED <<jobs, worker, email_record, delay, manual, config, history>>

\* line 515
RecordFailedOk(t) ==
    /\ pc[t] = "rec_failed"
    /\ jobs' = update_email_status(jobs, email_record[t], "failed", exc[t])
    /\ LoopWrote(email_record[t], jobs')
    /\ exc' = [exc EXCEPT ![t] = NULL]
    /\ email_record' = [email_record EXCEPT ![t] = None]
    /\ pc' = [pc EXCEPT ![t] = "clear"]
    /\ Paced(t, 0)
    /\ UNCHANGED <<worker, delay, manual, config, call, now>>

\* line 515 raises; lines 527-529
RecordFailedRaise(t) ==
    /\ pc[t] = "rec_failed"
    /\ exc' = [exc EXCEPT ![t] = NULL]
    /\ email_record' = [email_record EXCEPT ![t] = None]
    /\ pc' = [pc EXCEPT ![t] = "backoff"]
    /\ UNCHANGED <<jobs, worker, delay, manual, config, history>>

\* lines 517-521 with random.randrange in place of random.randint: MAX_DELAY left out
Clear_randrange(t) ==
    /\ pc[t] = "clear"
    /\ current_email' = None
    /\ IF is_running /\ ~is_paused
       THEN \E d \in config.MIN_DELAY..(config.MAX_DELAY - 1) :
               /\ delay' = [delay EXCEPT ![t] = d]
               /\ pc' = [pc EXCEPT ![t] = IF d = 0 THEN "check" ELSE "wait"]
       ELSE /\ pc' = [pc EXCEPT ![t] = "check"]
            /\ UNCHANGED delay
    /\ UNCHANGED <<jobs, is_running, is_paused, email_record, exc, manual, config, history>>

\* lines 517-521
Clear(t) ==
    /\ pc[t] = "clear"
    /\ current_email' = None
    /\ IF is_running /\ ~is_paused
       THEN \E d \in config.MIN_DELAY..config.MAX_DELAY :
               /\ delay' = [delay EXCEPT ![t] = d]
               /\ pc' = [pc EXCEPT ![t] = IF d = 0 THEN "check" ELSE "wait"]
       ELSE /\ pc' = [pc EXCEPT ![t] = "check"]
            /\ UNCHANGED delay
    /\ UNCHANGED <<jobs, is_running, is_paused, email_record, exc, manual, config, history>>

\* lines 522-525: one iteration of the counted loop; delay[t] >= 1 iterations are left
Wait(t) ==
    /\ pc[t] = "wait"
    /\ IF ~is_running \/ is_paused
       THEN /\ delay' = [delay EXCEPT ![t] = 0]
            /\ pc' = [pc EXCEPT ![t] = "check"]
            /\ UNCHANGED pace
       ELSE /\ delay' = [delay EXCEPT ![t] = delay[t] - 1]
            /\ pc' = [pc EXCEPT ![t] = IF delay[t] = 1 THEN "check" ELSE "wait"]
            /\ Paced(t, pace[t] + 1)
    /\ UNCHANGED <<jobs, worker, email_record, exc, manual, config, sinceStop, call, now>>

\* lines 528-529: print; time.sleep(5)
Backoff(t) ==
    /\ pc[t] = "backoff"
    /\ pc' = [pc EXCEPT ![t] = "check"]
    /\ UNCHANGED <<jobs, worker, locals, manual, config, history>>

\* line 531
Final(t) ==
    /\ pc[t] = "final"
    /\ current_email' = None
    /\ pc' = [pc EXCEPT ![t] = "exited"]
    /\ UNCHANGED <<jobs, is_running, is_paused, locals, manual, config, history>>

\* ------------------------------------------------ CampaignWorker control surface
\* start() without `self.is_paused = False`
start_keeps_paused ==
    IF is_running
    THEN UNCHANGED vars
    ELSE /\ \E t \in Threads :
              /\ pc[t] = "idle"
              /\ \A u \in Threads : pc[u] = "idle" => t <= u
              /\ pc' = [pc EXCEPT ![t] = "check"]
         /\ is_running' = TRUE
         /\ sinceStop' = NoStop
         /\ UNCHANGED <<jobs, is_paused, current_email, locals, manual, config, pace, call, now>>

\* start(): the new threading.Thread is the lowest thread not yet launched
start ==
    IF is_running
    THEN UNCHANGED vars
    ELSE /\ \E t \in Threads :
              /\ pc[t] = "idle"
              /\ \A u \in Threads : pc[u] = "idle" => t <= u
              /\ pc' = [pc EXCEPT ![t] = "check"]
         /\ is_running' = TRUE
         /\ is_paused' = FALSE
         /\ sinceStop' = NoStop
         /\ UNCHANGED <<jobs, current_email, locals, manual, config, pace, call, now>>

pause ==
    /\ is_paused' = TRUE
    /\ UNCHANGED <<jobs, is_running, current_email, pc, locals, manual, config, history>>

resume ==
    /\ is_paused' = FALSE
    /\ UNCHANGED <<jobs, is_running, current_email, pc, locals, manual, config, history>>

stop ==
    /\ is_running' = FALSE
    /\ is_paused' = FALSE
    /\ current_email' = None
    /\ sinceStop' = IF is_running /\ config.history THEN {} ELSE sinceStop
    /\ UNCHANGED <<jobs, pc, locals, manual, config, pace, call, now>>

\* ------------------------------------------------ Custom Send button handler
\* lines 846, 885, 902-910: the rerun lists the pending rows, one Send button is
\* hit and the text is generated inside the handler's try
MClick ==
    /\ mpc = "m_idle"
    /\ \E i \in get_emails_by_status(jobs, "pending"), reply \in config.api :
          LET g == generate_email(config.model, reply, Company(jobs[i]))
          IN /\ memail' = i
             /\ IF g.raised
                THEN mpc' = "m_rec_failed" /\ mexc' \in config.texts
                ELSE mpc' = "m_send" /\ UNCHANGED mexc
             /\ Generated(reply, g)
    /\ UNCHANGED <<jobs, worker, pc, locals, config, sinceStop, pace, now>>

\* lines 906-916: send_email returns True
MSendOk ==
    /\ mpc = "m_send"
    /\ \E att \in config.resume :
          LET r == send_email(att, "accepted")
          IN ~r.raised /\ Sent(0, memail, att, "accepted", r)
    /\ mpc' = "m_rec_sent"
    /\ UNCHANGED <<jobs, worker, pc, locals, memail, mexc, config,
                   sinceStop, pace, now>>

\* lines 912-921: send_email raises
MSendFail ==
    /\ mpc = "m_send"
    /\ \E att \in config.resume, smtp \in Smtp :
          LET r == send_email(att, smtp)
          IN r.raised /\ Sent(0, memail, att, smtp, r)
    /\ \E e \in config.texts : mexc' = e
    /\ mpc' = "m_rec_failed"
    /\ UNCHANGED <<jobs, worker, pc, locals, memail, config, sinceStop, pace, now>>

\* lines 917-920
MRecordSentOk ==
    /\ mpc = "m_rec_sent"
    /\ jobs' = update_email_status(jobs, memail, "sent", NULL)
    /\ mpc' = "m_idle"
    /\ memail' = None
    /\ UNCHANGED <<worker, pc, locals, mexc, config, history>>

\* line 917 raises; line 921
MRecordSentRaise ==
    /\ mpc = "m_rec_sent"
    /\ \E r \in config.texts : mexc' = r
    /\ mpc' = "m_rec_failed"
    /\ UNCHANGED <<jobs, worker, pc, locals, memail, config, history>>

\* lines 922-923
MRecordFailedOk ==
    /\ mpc = "m_rec_failed"
    /\ jobs' = update_email_status(jobs, memail, "failed", mexc)
    /\ mpc' = "m_idle"
    /\ memail' = None
    /\ mexc' = NULL
    /\ UNCHANGED <<worker, pc, locals, config, history>>

\* line 922 raises: the exception leaves the handler
MRecordFailedRaise ==
    /\ mpc = "m_rec_failed"
    /\ mpc' = "m_idle"
    /\ memail' = None
    /\ mexc' = NULL
    /\ UNCHANGED <<jobs, worker, pc, locals, config, history>>

\* ------------------------------------------------ administrative operations
\* lines 1013, 1039-1040: Retry on a row of the Failed tab
RetryOne ==
    /\ \E i \in get_emails_by_status(jobs, "failed") :
          jobs' = reset_email_status(jobs, i) /\ Renewed({i})
    /\ UNCHANGED <<worker, pc, locals, manual, config, sinceStop, pace, now>>

\* lines 1015, 1020-1021: Retry All Failed
RetryAllFailed ==
    /\ get_emails_by_status(jobs, "failed") # {}
    /\ jobs' = reset_all_failed(jobs)
    /\ Renewed(get_emails_by_status(jobs, "failed"))
    /\ UNCHANGED <<worker, pc, locals, manual, config, sinceStop, pace, now>>

\* lines 818-819: Add Test Contacts
AddTestContacts ==
    /\ jobs' = add_test_contacts(jobs)
    /\ Renewed({i \in Ids(jobs') : jobs'[i].email \in TestEmails})
    /\ UNCHANGED <<worker, pc, locals, manual, config, sinceStop, pace, now>>

\* ------------------------------------------------ specifications
LoopStep(t) ==
    \/ Check(t) \/ Hold(t) \/ FetchOk(t) \/ SelfStop(t)
    \/ SendOk(t) \/ SendFail(t) \/ RecordSentOk(t) \/ RecordFailedOk(t)
    \/ Clear(t) \/ Wait(t) \/ Final(t)

LoopFault(t) ==
    \/ FetchRaise(t) \/ RecordSentRaise(t) \/ RecordFailedRaise(t) \/ Backoff(t)

Next ==
    \/ \E t \in Threads : LoopStep(t) \/ LoopFault(t)
    \/ start \/ pause \/ resume \/ stop
    \/ MClick \/ MSendOk \/ MSendFail \/ MRecordSentOk \/ MRecordSentRaise
    \/ MRecordFailedOk \/ MRecordFailedRaise
    \/ RetryOne \/ RetryAllFailed \/ AddTestContacts

Spec == Init /\ [][Next]_vars

\* the same program, keeping the history of the writes made after stop()
InitStop ==
    /\ \E sns \in [1..NumJobs -> 0..MaxPriority] :
          jobs = [i \in 1..NumJobs |-> Imported(sns[i], i)]
    /\ config = [MIN_DELAY |-> MinDelayCfg, MAX_DELAY |-> MaxDelayCfg,
                 texts |-> {"boom"}, history |-> TRUE, pace |-> FALSE,
                 model |-> TRUE, api |-> ApiSome, gen |-> FALSE,
                 resume |-> {"stored"}, sends |-> FALSE, once |-> FALSE,
                 clock |-> FALSE]
    /\ InitWorker

SpecStop == InitStop /\ [][Next]_vars

\* the end-to-end scenario: MIN_DELAY = MAX_DELAY = 0, the store and the transport
\* never fail, nobody pauses, stops, sends by hand or resets
InitHappy ==
    /\ \E sns \in [1..HappyJobs -> 0..HappyPriority] :
          jobs = [i \in 1..HappyJobs |-> Imported(sns[i], i)]
    /\ config = [MIN_DELAY |-> 0, MAX_DELAY |-> 0, texts |-> {}, history |-> FALSE,
                 pace |-> FALSE,
                 model |-> TRUE, api |-> ApiSome, gen |-> FALSE,
                 resume |-> {"stored"}, sends |-> FALSE, once |-> FALSE,
                 clock |-> FALSE]
    /\ InitWorker

HappyStep(t) ==
    \/ Check(t) \/ FetchOk(t) \/ SelfStop(t) \/ SendOk(t) \/ RecordSentOk(t)
    \/ Clear(t) \/ Final(t)

NextHappy == start \/ \E t \in Threads : HappyStep(t)

\* every launched thread is scheduled
SpecHappy ==
    InitHappy /\ [][NextHappy]_vars /\ \A t \in Threads : WF_vars(HappyStep(t))

\* the worker, the store faults and the admin buttons, MIN_DELAY >= 1, the sleeps
\* of each paced wait counted in pace
InitPace ==
    /\ \E sns \in [1..NumJobs -> 0..MaxPriority] :
          jobs = [i \in 1..NumJobs |-> Imported(sns[i], i)]
    /\ config = [MIN_DELAY |-> PaceMin, MAX_DELAY |-> PaceMax,
                 texts |-> {"boom"}, history |-> FALSE, pace |-> TRUE,
                 model |-> TRUE, api |-> ApiSome, gen |-> FALSE,
                 resume |-> {"stored"}, sends |-> FALSE, once |-> FALSE,
                 clock |-> FALSE]
    /\ InitWorker

NextPace ==
    \/ \E t \in Threads : LoopStep(t) \/ LoopFault(t)
    \/ start \/ pause \/ resume \/ stop
    \/ RetryOne \/ RetryAllFailed \/ AddTestContacts

SpecPace == InitPace /\ [][NextPace]_vars

\* the worker and the Custom Send handler with every outcome of the Gemini API,
\* the model configured or not, the store never failing; call keeps the last
\* generate_email call
InitGen ==
    /\ \E cos \in [1..NumJobs -> {NULL, "Google India"}] :
          jobs = [i \in 1..NumJobs |-> Row(i, i, "hr", NULL, cos[i])]
    /\ \E m \in BOOLEAN :
          config = [MIN_DELAY |-> 0, MAX_DELAY |-> 0, texts |-> {"boom"},
                    history |-> FALSE, pace |-> FALSE,
                    model |-> m, api |-> ApiOutcomes, gen |-> TRUE,
                    resume |-> {"stored"}, sends |-> FALSE, once |-> FALSE,
                    clock |-> FALSE]
    /\ InitThreads
    /\ call = NoCall

GenStep(t) ==
    \/ Check(t) \/ FetchOk(t) \/ SelfStop(t) \/ SendOk(t) \/ SendFail(t)
    \/ RecordSentOk(t) \/ RecordFailedOk(t) \/ Clear(t) \/ Final(t)

NextGen ==
    \/ \E t \in Threads : GenStep(t)
    \/ start
    \/ MClick \/ MSendOk \/ MSendFail \/ MRecordSentOk \/ MRecordFailedOk
    \/ RetryOne

SpecGen == InitGen /\ [][NextGen]_vars

\* the upsert statement on its own: any table of at most UpsertRows rows with
\* distinct emails, any contact, applied twice
StoredStates ==
    {[status |-> "pending", sent |-> FALSE, error_message |-> NULL, sent_at |-> 0],
     [status |-> "sent", sent |-> TRUE, error_message |-> NULL, sent_at |-> 1],
     [status |-> "failed", sent |-> FALSE, error_message |-> "boom", sent_at |-> 0],
     [status |-> "failed", sent |-> TRUE, error_message |-> "boom", sent_at |-> 1]}

Contacts ==
    [serial_number : {0}, email : 1..UpsertRows, name : {"hr", "Priya Sharma"},
     title : {NULL, "HR Manager"}, company : {NULL, "Google India"}]

StoredRows ==
    {[Row(c.serial_number, c.email, c.name, c.title, c.company)
         EXCEPT !.status = st.status, !.sent = st.sent,
                !.error_message = st.error_message, !.sent_at = st.sent_at] :
       c \in Contacts, st \in StoredStates}

Tables ==
    {js \in UNION {[1..n -> StoredRows] : n \in 0..UpsertRows} :
        \A i, j \in Ids(js) : js[i].email = js[j].email => i = j}

InitUpsert ==
    /\ jobs \in Tables
    /\ \E c \in Contacts :
          call = [contact |-> c, applied |-> 0, before |-> jobs, once |-> <<>>]
    /\ config = [MIN_DELAY |-> 0, MAX_DELAY |-> 0, texts |-> {}, history |-> FALSE,
                 pace |-> FALSE, model |-> TRUE, api |-> ApiSome, gen |-> FALSE,
                 resume |-> {"stored"}, sends |-> FALSE, once |-> FALSE,
                 clock |-> FALSE]
    /\ InitThreads

\* lines 264-276, once more
ApplyUpsert ==
    /\ call.applied < 2
    /\ jobs' = Upsert(jobs, call.contact)
    /\ call' = [call EXCEPT !.applied = @ + 1,
                            !.once = IF call.applied = 0 THEN jobs' ELSE @]
    /\ UNCHANGED <<worker, pc, locals, manual, config, sinceStop, pace, now>>

SpecUpsert == InitUpsert /\ [][ApplyUpsert]_vars

\* the whole program, counting in call the send_email calls that reach SMTP for
\* each row since its last reset or upsert
InitOnce ==
    /\ \E sns \in [1..NumJobs -> 0..MaxPriority] :
          jobs = [i \in 1..NumJobs |-> Imported(sns[i], i)]
    /\ config = [MIN_DELAY |-> 0, MAX_DELAY |-> 0, texts |-> {"boom"},
                 history |-> FALSE, pace |-> FALSE,
                 model |-> TRUE, api |-> ApiSome, gen |-> FALSE,
                 resume |-> {"stored"}, sends |-> FALSE, once |-> TRUE,
                 clock |-> FALSE]
    /\ InitThreads
    /\ call = [i \in AllIds |-> 0]

NextOnce ==
    \/ \E t \in Threads : GenStep(t) \/ LoopFault(t)
    \/ start \/ stop
    \/ MClick \/ MSendOk \/ MSendFail \/ MRecordSentOk \/ MRecordSentRaise
    \/ MRecordFailedOk \/ MRecordFailedRaise
    \/ RetryOne

SpecOnce == InitOnce /\ [][NextOnce]_vars

\* each store operation on its own: any table of at most UpsertRows rows with
\* distinct emails and any serial_numbers, timestamps 0, one operation at time 1;
\* call keeps the operation, the rows it addresses and the table before it
InitStore ==
    /\ config = [MIN_DELAY |-> 0, MAX_DELAY |-> 0, texts |-> {}, history |-> FALSE,
                 pace |-> FALSE, model |-> TRUE, api |-> ApiSome, gen |-> FALSE,
                 resume |-> {"stored"}, sends |-> FALSE, once |-> FALSE,
                 clock |-> TRUE]
    /\ InitThreads
    /\ \E js \in Tables, sns \in [1..UpsertRows -> 0..MaxPriority] :
          jobs = [i \in Ids(js) |-> [js[i] EXCEPT !.serial_number = sns[i]]]
    /\ call = [op |-> "none", ids |-> {}, at |-> 0, before |-> jobs,
               stats |-> get_stats(<<>>)]

Done(op, ids) ==
    /\ call.op = "none"
    /\ call' = [call EXCEPT !.op = op, !.ids = ids, !.at = now]
    /\ now' = now + 1
    /\ UNCHANGED <<worker, pc, locals, manual, config, sinceStop, pace>>

\* lines 169-186: the dashboard reads the counts
ViewStats ==
    /\ call.op = "none"
    /\ call' = [call EXCEPT !.op = "get_stats", !.stats = get_stats(jobs)]
    /\ UNCHANGED <<jobs, worker, pc, locals, manual, config, sinceStop, pace, now>>

\* lines 188-206
StoreRecord ==
    \E id \in Ids(jobs), st \in {"sent", "failed"} :
        /\ jobs' = update_email_status(jobs, id, st,
                                       IF st = "failed" THEN "boom" ELSE NULL)
        /\ Done("update_email_status", {id})

\* lines 208-218
StoreReset ==
    \E id \in Ids(jobs) :
        jobs' = reset_email_status(jobs, id) /\ Done("reset_email_status", {id})

\* lines 220-229
StoreResetAll ==
    /\ jobs' = reset_all_failed(jobs)
    /\ Done("reset_all_failed", get_emails_by_status(jobs, "failed"))

\* lines 264-276
StoreUpsert ==
    \E c \in Contacts :
        /\ jobs' = Upsert(jobs, c)
        /\ Done("upsert", {i \in Ids(jobs) : jobs[i].email = c.email})

NextStore == ViewStats \/ StoreRecord \/ StoreReset \/ StoreResetAll \/ StoreUpsert

SpecStore == InitStore /\ [][NextStore]_vars

\* one loop thread and the Custom Send handler, get_resume_attachment and the
\* SMTP block with every outcome, the store failing or not; call keeps the last
\* send_email call of each holder
InitSend ==
    /\ \E sns \in [1..NumJobs -> 0..MaxPriority] :
          jobs = [i \in 1..NumJobs |-> Imported(sns[i], i)]
    /\ config = [MIN_DELAY |-> 0, MAX_DELAY |-> 0, texts |-> {"boom"},
                 history |-> FALSE, pace |-> FALSE,
                 model |-> TRUE, api |-> ApiSome, gen |-> FALSE,
                 resume |-> Resumes \ {"file"}, sends |-> TRUE, once |-> FALSE,
                 clock |-> FALSE]
    /\ InitThreads
    /\ call = [h \in Holders |-> NoSend]

NextSend ==
    \/ \E t \in Threads : GenStep(t) \/ LoopFault(t)
    \/ start
    \/ MClick \/ MSendOk \/ MSendFail \/ MRecordSentOk \/ MRecordSentRaise
    \/ MRecordFailedOk \/ MRecordFailedRaise
    \/ RetryOne

SpecSend == InitSend /\ [][NextSend]_vars

\* ------------------------------------------------ properties
LoopHolds(t, i) == pc[t] \in InFlight /\ email_record[t] = i
ManualHolds(i) == mpc # "m_idle" /\ memail = i

\* C1: no row is in flight (picked, not yet recorded) in the background loop and in
\* the manual send handler at the same time.
NoDoubleClaim ==
    \A t \in Threads : \A i \in Ids(jobs) : ~(LoopHolds(t, i) /\ ManualHolds(i))

\* C2: at most one job is in flight at any instant, counting every loop thread and
\* the manual send handler.
AtMostOneInFlight ==
    Cardinality({t \in Threads : pc[t] \in InFlight})
        + (IF mpc # "m_idle" THEN 1 ELSE 0) <= 1

\* C3: at most one process_emails thread is past its is_running check and working
\* (fetching, sending, recording or in its paced wait).
Processing == InFlight \cup {"fetch", "clear", "wait"}

SingleActiveWorker ==
    Cardinality({t \in Threads : pc[t] \in Processing}) <= 1

\* C4: sent rows have sent_at and no error_message, failed rows have an
\* error_message and no sent_at, pending rows have neither.
StatusInvariant ==
    \A i \in Ids(jobs) :
        /\ jobs[i].status = "sent" =>
              jobs[i].sent_at # 0 /\ jobs[i].error_message = NULL
        /\ jobs[i].status = "failed" =>
              jobs[i].error_message # NULL /\ jobs[i].sent_at = 0
        /\ jobs[i].status = "pending" =>
              jobs[i].sent_at = 0 /\ jobs[i].error_message = NULL

\* C5: a row becomes sent only from pending; a sent row leaves sent only by an
\* administrative reset, which makes it pending; recording an outcome turns
\* neither sent into failed nor failed into sent.
AdminStep == RetryOne \/ RetryAllFailed \/ AddTestContacts

StatusTransitions ==
    [][\A i \in Ids(jobs) :
          /\ (jobs[i].status # "sent" /\ jobs'[i].status = "sent")
                => jobs[i].status = "pending"
          /\ (jobs[i].status = "sent" /\ jobs'[i].status # "sent")
                => (AdminStep /\ jobs'[i].status = "pending")]_vars

\* C6: the row the loop picks is the pending row with the lowest serial_number and,
\* among those, the lowest id.
DispatchOrder ==
    [][\A t \in Threads :
          (pc[t] = "fetch" /\ pc'[t] = "send")
             => email_record'[t] \in get_pending_emails_paginated(jobs)]_vars

\* C7: while the worker is Paused, an attempt in flight ends with its outcome
\* recorded, and a loop that has come to its pause check picks no job.
PauseSemantics ==
    [][(is_running /\ is_paused) =>
          \A t \in Threads :
             /\ (pc[t] \in InFlight /\ pc'[t] \notin InFlight) => pc'[t] = "clear"
             /\ pc[t] \in {"check", "hold"} => pc'[t] \in {"check", "hold"}]_vars

\* C8: after stop() on a running worker and until the next start(), an attempt in
\* flight ends with its outcome recorded, the loop writes the status of at most
\* one row, and a loop that comes to its is_running check exits.
StopSemantics ==
    [][(sinceStop # NoStop /\ sinceStop' # NoStop) =>
          /\ Cardinality(sinceStop') <= 1
          /\ \A t \in Threads :
                /\ (pc[t] \in InFlight /\ pc'[t] \notin InFlight) => pc'[t] = "clear"
                /\ pc[t] = "check" => pc'[t] \in {"check", "final"}]_vars

\* C9: once started on a queue of pending rows, the worker sends every row, lower
\* serial_numbers first, and stops by itself with pending = 0, sent = n, failed = 0.
HappyDone ==
    /\ ~is_running
    /\ \A t \in Threads : pc[t] \in {"idle", "exited"}
    /\ \E t \in Threads : pc[t] = "exited"
    /\ \A i \in Ids(jobs) : jobs[i].status = "sent"
    /\ get_stats(jobs) = [total |-> HappyJobs, sent |-> HappyJobs,
                          pending |-> 0, failed |-> 0]

HappyOrder ==
    \A t \in Threads :
        (pc[t] = "fetch" /\ pc'[t] = "send") =>
            \A k \in Ids(jobs) :
                jobs[k].serial_number < jobs[email_record'[t]].serial_number
                    => jobs[k].status = "sent"

EndToEnd == (is_running ~> HappyDone) /\ [][HappyOrder]_vars

EndToEndWitness ==
    /\ HappyDone
    /\ \E i, k \in Ids(jobs) : i < k /\ jobs[k].serial_number < jobs[i].serial_number

\* C10 as claimed: at the step in which a loop stops the worker by itself, no row
\* has status pending.
SelfStopNoPending ==
    [][\A t \in Threads :
          (pc[t] = "selfstop" /\ pc'[t] = "final")
             => get_emails_by_status(jobs, "pending") = {}]_vars

\* C10 as amended: a loop comes to stop the worker by itself only from a fetch that
\* returns nothing, made when no row has status pending, and only such a loop or
\* stop() clears is_running.
SelfStopOnEmptyFetch ==
    [][/\ \A t \in Threads :
             (pc[t] # "selfstop" /\ pc'[t] = "selfstop")
                => (pc[t] = "fetch" /\ get_emails_by_status(jobs, "pending") = {})
       /\ (is_running /\ ~is_running')
             => (stop \/ \E t \in Threads : pc[t] = "selfstop" /\ pc'[t] = "final")]_vars

SelfStopWitness ==
    \E t \in Threads :
        /\ pc[t] = "selfstop" /\ is_running
        /\ get_emails_by_status(jobs, "pending") = {}
        /\ get_emails_by_status(jobs, "failed") # {}

\* C11: a transport failure with reason r ends with the claimed row failed and
\* error_message = r, the worker still running and the thread moving on to the
\* rest of its round, the row neither left pending nor picked again.
TransportFailureRecorded ==
    [][\A t \in Threads :
         (pc[t] = "rec_failed" /\ pc'[t] # "rec_failed")
            => /\ pc'[t] = "clear"
               /\ jobs'[email_record[t]].status = "failed"
               /\ jobs'[email_record[t]].error_message = exc[t]
               /\ is_running' = is_running]_vars

\* C12: a store call of the loop that fails stops the loop: the thread that
\* caught the failure leaves its back-off only to exit, is_running cleared.
StoreFailureFatal ==
    [][\A t \in Threads :
         (pc[t] = "backoff" /\ pc'[t] # "backoff")
            => (pc'[t] \in {"final", "exited"} /\ ~is_running')]_vars

\* C13: every send attempt of the loop leaves the in-flight phase with an
\* outcome written: its row is sent or failed, never still pending.
CleanRecording ==
    [][\A t \in Threads :
         (pc[t] \in InFlight /\ pc'[t] \notin InFlight)
            => jobs'[email_record[t]].status \in {"sent", "failed"}]_vars

\* C14: after a recorded outcome, a worker that is running and not paused draws
\* its delay from MIN_DELAY..MAX_DELAY, every value of the window possible, and a
\* wait that ends with the worker still running and not paused has served that
\* many one-second sleeps.
PacingWindow ==
    /\ [](\A t \in Threads :
            (pc[t] = "clear" /\ is_running /\ ~is_paused)
               => \A d \in config.MIN_DELAY..config.MAX_DELAY :
                     ENABLED (Clear(t) /\ delay'[t] = d))
    /\ [][\A t \in Threads :
            (pc[t] \in {"clear", "wait"} /\ pc'[t] = "check"
                /\ is_running /\ ~is_paused)
               => pace'[t] \in config.MIN_DELAY..config.MAX_DELAY]_vars

PacingWitness ==
    \E t \in Threads :
        /\ pc[t] = "check" /\ is_running /\ ~is_paused
        /\ pace[t] = config.MAX_DELAY /\ config.MAX_DELAY > config.MIN_DELAY

\* C15: a thread that has recorded an outcome picks its next row only after
\* MIN_DELAY sleeps of the paced wait, a pause in between or not.
ResumedWait ==
    [][\A t \in Threads :
         (pc[t] = "fetch" /\ pc'[t] = "send" /\ pace[t] >= 0)
            => pace[t] >= config.MIN_DELAY]_vars

\* C16: a reset (Retry, Retry All Failed) takes a failed row to pending with
\* error_message and sent_at cleared, and Retry All Failed leaves no row failed.
RetryReversible ==
    [][(RetryOne \/ RetryAllFailed)
          => /\ \A i \in Ids(jobs) :
                  (jobs[i].status = "failed" /\ jobs'[i].status # "failed")
                     => /\ jobs'[i].status = "pending"
                        /\ jobs'[i].error_message = NULL
                        /\ jobs'[i].sent_at = 0
             /\ RetryAllFailed => \A i \in Ids(jobs) : jobs'[i].status # "failed"]_vars

\* the mode shown by the status badge (lines 689-695)
RunMode ==
    IF ~is_running THEN "Stopped" ELSE IF is_paused THEN "Paused" ELSE "Running"

\* C18: start() changes the mode only from Stopped, to Running, whatever pause()
\* or resume() did while Stopped; pause() only from Running, to Paused; resume()
\* only from Paused, to Running.
ControllerGuards ==
    [][/\ start => RunMode' = IF RunMode = "Stopped" THEN "Running" ELSE RunMode
       /\ pause => RunMode' = IF RunMode = "Running" THEN "Paused" ELSE RunMode
       /\ resume => RunMode' = IF RunMode = "Paused" THEN "Running" ELSE RunMode]_vars

\* pause() has been called on a stopped worker and a start() can follow
ControllerWitness ==
    /\ RunMode = "Stopped" /\ is_paused
    /\ \A t \in Threads : pc[t] = "idle"

Live(t) == pc[t] \notin {"idle", "exited"}

\* C19: a loop that exits with no other loop alive leaves the worker stopped
\* with current_email empty, and an exiting loop never clears the current_email
\* set by a loop started after it.
LoopExitResets ==
    [][\A t \in Threads :
         (pc[t] = "final" /\ pc'[t] = "exited")
            => /\ (\A u \in Threads \ {t} : ~Live(u))
                     => (~is_running' /\ current_email' = None)
               /\ \A u \in Threads :
                     (u > t /\ pc[u] \in InFlight
                          /\ current_email = jobs[email_record[u]].email)
                        => current_email' = current_email]_vars

\* C17: emails are unique in the table; after an upsert the row of the
\* contact's email is pending with error_message and sent_at cleared and
\* name, title, company those of the contact; a second upsert of the same
\* contact changes nothing.
UpsertIdempotent ==
    /\ \A i, j \in Ids(jobs) : jobs[i].email = jobs[j].email => i = j
    /\ call.applied >= 1
          => \E i \in Ids(jobs) :
                /\ jobs[i].email = call.contact.email
                /\ jobs[i].status = "pending"
                /\ jobs[i].error_message = NULL /\ jobs[i].sent_at = 0
                /\ jobs[i].name = call.contact.name
                /\ jobs[i].title = call.contact.title
                /\ jobs[i].company = call.contact.company
    /\ call.applied = 2 => jobs = call.once

\* a failed row under another name was upserted twice and no row was added
UpsertWitness ==
    /\ call.applied = 2 /\ Len(jobs) = Len(call.before)
    /\ \E i \in Ids(call.before) :
          /\ call.before[i].email = call.contact.email
          /\ call.before[i].status = "failed"
          /\ call.before[i].name # call.contact.name

\* C20: generate_email returns a subject and a body whatever the Gemini API
\* does and whether or not the model is configured: every pick of the loop goes
\* on to send_email, every Send click of Custom Send too, and no row changes.
GenerationNeverFails ==
    [][/\ \A t \in Threads :
            (pc[t] = "fetch" /\ pc'[t] \notin {"fetch", "selfstop"})
               => /\ pc'[t] = "send" /\ jobs' = jobs
                  /\ DOMAIN call'.result = {"raised", "subject", "body"}
                  /\ ~call'.result.raised
       /\ (mpc = "m_idle" /\ mpc' # "m_idle")
               => /\ mpc' = "m_send" /\ jobs' = jobs
                  /\ ~call'.result.raised]_vars

\* a row is on its way to send_email after the Gemini API raised
GenerationWitness ==
    /\ config.model /\ call.reply = ApiError
    /\ \E t \in Threads : pc[t] = "send"

\* C21: a send_email call whose attachment cannot be resolved still hands the
\* message to the SMTP block, without the attachment, and returns or raises as
\* the SMTP block does.
AttachmentNonFatal ==
    [][\A t \in Threads :
         (pc[t] = "send" /\ pc'[t] # "send"
             /\ call'[t].resume \in {"read_error", "undecodable"})
            => /\ call'[t].result.handed /\ ~call'[t].result.attached
               /\ (pc'[t] = "rec_sent") = (call'[t].smtp = "accepted")]_vars

\* C24: the loop and the Custom Send handler write failed only after a
\* send_email call that raised, and sent only after one that returned.
OutcomeFaithful ==
    [][/\ \A t \in Threads :
            /\ (pc[t] = "rec_failed" /\ pc'[t] = "clear") => call[t].result.raised
            /\ (pc[t] = "rec_sent" /\ pc'[t] = "clear") => ~call[t].result.raised
       /\ (mpc = "m_rec_failed" /\ mpc' = "m_idle" /\ jobs' # jobs)
               => call[0].result.raised
       /\ (mpc = "m_rec_sent" /\ mpc' = "m_idle") => ~call[0].result.raised]_vars

\* C22: in every table progress and success rate have a denominator of at least
\* 1, lie between 0 and 1 (the rate, which the code scales by 100, between 0 and
\* 100) and are 0 when sent/total or sent/(sent+failed) has denominator 0;
\* reading the counts changes no row.
StatsAggregation ==
    LET s == get_stats(jobs)
        p == progress(s)
        r == success_rate(s)
    IN /\ p.den >= 1 /\ r.den >= 1
       /\ 0 <= p.num /\ p.num <= p.den
       /\ 0 <= r.num /\ r.num <= 100 * r.den
       /\ s.total = 0 => p.num = 0
       /\ s.sent + s.failed = 0 => r.num = 0
       /\ call.op = "get_stats" => (jobs = call.before /\ call.stats = s)

\* the counts of an empty table have been read
StatsWitness ==
    /\ call.op = "get_stats" /\ call.stats.total = 0
    /\ call.stats.sent + call.stats.failed = 0

\* C27: reset_all_failed changes the rows that were failed and no other row;
\* update_email_status(id, ...) changes no row but the row id.
FrameOfWrites ==
    /\ call.op = "reset_all_failed"
          => /\ Ids(jobs) = Ids(call.before)
             /\ \A i \in Ids(jobs) :
                   (call.before[i].status = "failed") = (jobs[i] # call.before[i])
    /\ call.op = "update_email_status"
          => /\ Ids(jobs) = Ids(call.before)
             /\ \A i \in Ids(jobs) \ call.ids : jobs[i] = call.before[i]

\* reset_all_failed has run on a table with a failed row and a sent row
FrameWitness ==
    /\ call.op = "reset_all_failed"
    /\ \E i, j \in Ids(call.before) :
          call.before[i].status = "failed" /\ call.before[j].status = "sent"

\* C28: after update_email_status, reset_email_status, reset_all_failed or an
\* upsert on an existing email, every row the operation addressed has
\* updated_at at the time of the operation, later than before.
UpdatedAtRefreshed ==
    call.op \in {"update_email_status", "reset_email_status",
                 "reset_all_failed", "upsert"}
       => \A i \in call.ids :
             /\ jobs[i].updated_at = call.at
             /\ jobs[i].updated_at > call.before[i].updated_at

\* C29: an upsert on an existing email leaves that row at its id with its
\* serial_number and created_at, adds no row and changes no other row.
UpsertPreserves ==
    (call.op = "upsert" /\ call.ids # {})
       => /\ Ids(jobs) = Ids(call.before)
          /\ \A i \in call.ids :
                /\ jobs[i].email = call.before[i].email
                /\ jobs[i].serial_number = call.before[i].serial_number
                /\ jobs[i].created_at = call.before[i].created_at
          /\ \A i \in Ids(jobs) \ call.ids : jobs[i] = call.before[i]

\* a sent row of serial_number above the contact's has been upserted, next to
\* another row
PreservesWitness ==
    /\ call.op = "upsert" /\ Len(call.before) = UpsertRows
    /\ \E i \in call.ids :
          /\ call.before[i].status = "sent"
          /\ call.before[i].serial_number > 0
          /\ jobs[i].status = "pending"

\* C23: between two resets or upserts of a row, at most one send_email call for
\* it reaches the SMTP block.
AtMostOnce == \A i \in AllIds : call[i] <= 1

\* C25: the sent flag of every row is TRUE exactly when its status is sent, and
\* the counts of get_stats add up: pending + sent + failed = total.
FlagAgreesPartition ==
    /\ \A i \in Ids(jobs) : jobs[i].sent = (jobs[i].status = "sent")
    /\ LET s == get_stats(jobs) IN s.pending + s.sent + s.failed = s.total

\* C26: a current_email that is set is the address of a row some loop thread has
\* picked and not finished recording, and current_email is empty while the
\* worker is stopped.
CurrentTracksInFlight ==
    /\ current_email # None
          => \E t \in Threads :
                \/ pc[t] \in InFlight /\ jobs[email_record[t]].email = current_email
                \/ pc[t] = "clear"
    /\ ~is_running => current_email = None
====
